---- MODULE Spec2Model ----
(***************************************************************************)
(* YourDash backend: the application (plugin) registry of applications.ts, *)
(* the load loop of Instance.startup in main.ts, and the panel icon routes *)
(* of the request manager.                                                 *)
(***************************************************************************)
EXTENDS Integers, Sequences, FiniteSets, Bags, TLC

VARIABLES
    linkDevelopmentApplications, \* instance.flags.linkDevelopmentApplications
    installedCfg,                \* what discovery finds (configuration row / directory listing)
    modules,                     \* per application path: what its entry module does
    pc,                          \* position of Instance.startup / loadApplication
    installed,                   \* `applications` of Instance.startup
    idx,                         \* position of the for..of loop over `applications`
    cur,                         \* `application` local of loadApplication (object reference)
    heap,                        \* constructed YourDashApplication objects, by reference
    loadedApplications,          \* Applications.loadedApplications (references, in order)
    loadLog,                     \* history: how each loadApplication call completed
    uninstallLog,                \* history: the uninstallApplication calls made
    status,                      \* Instance.status
    listening,                   \* the server accepts requests
    selfPing,                    \* the self-ping fetch issued once listening: none, pending, ok, failed
    files,                       \* filesystem: content of each file path, or Absent
    cacheDirs,                   \* filesystem: per-application cache subdirectories that exist
    everExisted,                 \* history: source icon paths that have existed at some time
    sourceChanges,               \* history: number of changes made to source icons
    reqs,                        \* icon requests (a bag): handler position, locals and reply
    resizeLog,                   \* history: the resizeImage invocations, in order
    pinned,                      \* panel_configuration.pinned_applications of the requesting user
    panelReply,                  \* the last reply of a panel listing route
    hookReturn,                  \* history: the last lifecycle hook call made from outside the load
    disk,                        \* filesystem: what is at each path filesystem startup provisions
    fsStep,                      \* Filesystem.__internal_startup: the step to do next
    fsLog,                       \* history: the line each provisioning step logged, per boot
    boots,                       \* history: number of times the process has been started
    failures,                    \* history: number of mkdir/cp calls the environment has failed
    descriptors,                 \* the frontend wiring each entry module's descriptor declares
    pinReqs                      \* pin-create requests: handler position, locals and reply

regVars == <<linkDevelopmentApplications, installedCfg, modules, pc, installed, idx,
             cur, heap, loadedApplications, loadLog, uninstallLog, status, listening,
             selfPing>>

iconVars == <<files, cacheDirs, everExisted, sourceChanges, reqs, resizeLog>>

panelVars == <<pinned, panelReply, hookReturn>>

fsVars == <<disk, fsStep, fsLog, boots, failures>>

shortcutVars == <<descriptors, pinReqs>>

vars == <<regVars, iconVars, panelVars, fsVars, shortcutVars>>

----------------------------------------------------------------------------
\* Bounds of the model.
MaxInstalled == 2
MaxUninstalls == 1

\* Application paths; a well-formed plugin's descriptor id is its directory name.
Paths == {"app-a", "app-b"}

\* What the entry module at a path does when loaded.
ModuleKinds == {"ok", "missing", "importThrows", "noDefaultExport", "ctorThrows",
                "descriptorUndefined", "descriptorNoId", "onLoadThrows"}

FailingKinds == ModuleKinds \ {"ok"}

NoApp == 0
NoId == "undefined"
NOT_YET_LOADED == <<"NOT YET LOADED!!!!">>

SeqsUpTo(S, n) == UNION {[1..k -> S] : k \in 0..n}

\* Discovery cannot be done: the configuration query fails or returns no row
\* (query.rows[0] is undefined), or the applications directory cannot be read.
DiscoveryError == <<"!discovery-error">>

\* Faulty variant: the discovery failure is swallowed and read as "nothing installed"
DiscoveryRejects_Swallowed(cfg) == FALSE

\* getInstalledApplications rejects (its await throws)
DiscoveryRejects(cfg) == cfg = DiscoveryError

\* return val || [];
InstalledValue(cfg) == IF cfg = DiscoveryError THEN <<>> ELSE cfg

\* Faulty variant: the load leaves the constructor's sentinel in place
ResolvedPath_Sentinel(applicationPath) == NOT_YET_LOADED

\* path.posix.join("./src/applications/" + applicationPath)
ResolvedPath(applicationPath) == <<"src", "applications", applicationPath>>

\* the id field of the descriptor the module at `applicationPath` passes to super()
DescriptorId(applicationPath) ==
    IF modules[applicationPath] = "descriptorNoId" THEN NoId ELSE applicationPath

\* new YourDashApplication(applicationParams)
YourDashApplication(id) ==
    [id |-> id, initializedPath |-> NOT_YET_LOADED, pathSets |-> 0,
     onLoadCalls |-> 0, onBeforeUninstallCalls |-> 0]

\* Faulty variant: a predicate that is always truthy: find returns the first element
FindIn_First(apps, h, applicationId) == IF Len(apps) = 0 THEN NoApp ELSE apps[1]

\* loadedApplications.find((a) => a.__internal_params.id === applicationId)
FindIn(apps, h, applicationId) ==
    LET hits == {k \in 1..Len(apps) : h[apps[k]].id = applicationId}
    IN  IF hits = {} THEN NoApp
        ELSE apps[CHOOSE k \in hits : \A j \in hits : k <= j]

Find(applicationId) == FindIn(loadedApplications, heap, applicationId)

----------------------------------------------------------------------------
\* The registry after construction (Applications.constructor, Instance.status).
RegistryInit ==
    /\ pc = "discover"
    /\ installed = <<>>
    /\ idx = 1
    /\ cur = NoApp
    /\ heap = <<>>
    /\ loadedApplications = <<>>
    /\ loadLog = <<>>
    /\ uninstallLog = <<>>
    /\ status = "UNKNOWN"
    /\ listening = FALSE
    /\ selfPing = "none"

----------------------------------------------------------------------------
\* Panel icon routes: paths, files and requests.
MaxRequests == 2
MaxSourceChanges == 1

RenditionKinds == {"largeGrid", "smallGrid", "list", "quickShortcut"}

\* File contents: no file, a file being written, a source icon in some version,
\* the fallback image.
Absent == <<"absent">>
Partial == <<"partial">>
SourceIcon(version) == <<"icon", version>>
InvalidIcon == <<"invalidIcon">>
SourceContents == {SourceIcon(1), SourceIcon(2)}
None == <<>>

\* target width and height every icon route passes to resizeImage
IconSize == 88

\* the cache file each route tests, writes and streams
CacheFileName(kind) ==
    CASE kind = "largeGrid" -> "largeGridIcon.webp"
      [] kind = "smallGrid" -> "smallGridIcon.webp"
      [] kind = "list" -> "listIcon.webp"
      [] kind = "quickShortcut" -> "quickShortcut.webp"

\* the source icon each route hands to resizeImage, below the application's path
SourceFileName(kind) == IF kind = "quickShortcut" THEN "assets/icon.png" ELSE "icon.avif"

\* filesystem.commonPaths.globalCacheDirectory()
GlobalCacheDirectory == <<"fs", "Cache">>

\* path.join(GlobalCacheDirectory(), "panel/applications", app.__internal_params.id)
CacheDir(id) == GlobalCacheDirectory \o <<"panel/applications", id>>

\* path.join(GlobalCacheDirectory(), "panel/applications", id, "<kind>.webp")
CachePath(id, kind) == CacheDir(id) \o <<CacheFileName(kind)>>

\* path.join(GlobalCacheDirectory(), "panel", "invalidIcon.webp")
InvalidIconPath == GlobalCacheDirectory \o <<"panel", "invalidIcon.webp">>

\* path.join(app.__internal_initializedPath, "./icon.avif" | "./assets/icon.png")
SourcePath(initializedPath, kind) == initializedPath \o <<SourceFileName(kind)>>

SourceFiles == {SourcePath(ResolvedPath(p), k) : p \in Paths, k \in RenditionKinds}
CacheFiles == {CachePath(p, k) : p \in Paths, k \in RenditionKinds}
AllFiles == SourceFiles \cup CacheFiles \cup {InvalidIconPath}

\* what resizeImage writes to its destination once it has finished
Rendition(sourceContent, width, height, format) == <<format, width, height, sourceContent>>

\* Faulty variant: the cache test is ignored and the rendition generated again
AfterCacheCheck_Regenerate(exists) == "mkdir"

\* the handler's branch after doesPathExist(cache path)
AfterCacheCheck(exists) == IF exists THEN "sendCache" ELSE "mkdir"

\* what follows mkdir: the grid and list routes test the source icon, the
\* quick-shortcut route calls resizeImage at once
AfterMkdir(kind) == IF kind = "quickShortcut" THEN "resize" ELSE "source"

\* Faulty variant: once the fallback, always the fallback
AfterSourceCheck_AlwaysInvalid(exists) == "sendInvalid"

\* the handler's branch after doesPathExist(source icon)
AfterSourceCheck(exists) == IF exists THEN "resize" ELSE "sendInvalid"

\* no request yet, empty cache; the fallback image is in place
IconInit ==
    /\ cacheDirs = {}
    /\ everExisted = {f \in SourceFiles : files[f] # Absent}
    /\ sourceChanges = 0
    /\ reqs = EmptyBag
    /\ resizeLog = <<>>

InitialFiles(sources) ==
    [f \in AllFiles |-> IF f = InvalidIconPath THEN InvalidIcon
                        ELSE IF f \in sources THEN SourceIcon(1) ELSE Absent]

----------------------------------------------------------------------------
\* Panel listing routes and lifecycle hooks.
MaxPins == 2

\* identifiers a pin list can hold: the installed ones and one never installed
PinIds == Paths \cup {"app-x"}

\* the requesting user has no panel_configuration row (query.rows[0] is undefined)
NoRow == <<"!no-row">>

NoReply == [route |-> "none", code |-> 0, body |-> <<>>, apps |-> <<>>]

\* the default hooks of YourDashApplication: each returns `this`
onLoad(self) == self

\* Faulty variant: the hook returns nothing (undefined), so calls cannot be chained
onAfterInstall_ReturnsNothing(self) == NoApp

onAfterInstall(self) == self

onBeforeUninstall(self) == self

Hooks == {"onLoad", "onAfterInstall", "onBeforeUninstall"}

\* application[hook]() on an instance that does not override the hook
DefaultHook(hook, self) ==
    CASE hook = "onLoad" -> onLoad(self)
      [] hook = "onAfterInstall" -> onAfterInstall(self)
      [] hook = "onBeforeUninstall" -> onBeforeUninstall(self)

\* the application path an instance was loaded from
LoadedFrom(o) == CHOOSE p \in Paths : heap[o].initializedPath = ResolvedPath(p)

\* the instance inherits the default implementation of the hook
HasDefaultHook(o, hook) == hook = "onLoad" => modules[LoadedFrom(o)] # "onLoadThrows"

\* pinned_applications.map((a) => loadedApplications.find((i) => i.__internal_params.id === a))
MapFind(pins) == [k \in 1..Len(pins) |-> Find(pins[k])]

\* .filter((a) => a !== undefined)
IsDefined(a) == a # NoApp

\* Faulty variant: the live instances that are pinned, in load order
PinnedApplications_LoadOrder(pins) ==
    SelectSeq(loadedApplications, LAMBDA o : \E k \in 1..Len(pins) : pins[k] = heap[o].id)

\* the instances the quick-shortcut listing is made from
PinnedApplications(pins) == SelectSeq(MapFind(pins), IsDefined)

\* externalFrontend?: { url: string }: not declared, or declared with a url
\* (any string, the empty one included)
Urls == {"", "https://external.example"}
NoExternalFrontend == [declared |-> FALSE, url |-> ""]
ExternalFrontends == {NoExternalFrontend} \cup {[declared |-> TRUE, url |-> u] : u \in Urls}

\* the wiring part of a descriptor: frontend?: { entryPoint }, externalFrontend?: { url }
Wirings == [frontend : BOOLEAN, externalFrontend : ExternalFrontends]

\* a descriptor that declares a frontend and no external frontend
FrontendOnly == [frontend |-> TRUE, externalFrontend |-> NoExternalFrontend]

\* app.__internal_params of a loaded instance
Params(o) == descriptors[LoadedFrom(o)]

\* externalFrontend?.url : undefined when externalFrontend is not declared
OptionalUrl(externalFrontend) ==
    IF externalFrontend.declared THEN externalFrontend.url ELSE NoId

\* a || b : b when a is undefined or the empty string
OrElse(a, b) == IF a \in {NoId, ""} THEN b ELSE a

Placeholder == "example.com"

\* Faulty variant: an external frontend, when declared, wins over frontend
ShortcutEntry_ExternalFirst(id, params) ==
    IF params.externalFrontend.declared
    THEN [id |-> id, url |-> OrElse(OptionalUrl(params.externalFrontend), Placeholder)]
    ELSE [id |-> id, endpoint |-> <<"app", "a", id>>]

\* if (app.__internal_params.frontend) { ... endpoint } return { ... url }
ShortcutEntry(id, params) ==
    IF params.frontend
    THEN [id |-> id, endpoint |-> <<"app", "a", id>>]
    ELSE [id |-> id, url |-> OrElse(OptionalUrl(params.externalFrontend), Placeholder)]

\* one quick-shortcut entry per instance found
ShortcutEntries(apps) ==
    [k \in 1..Len(apps) |-> ShortcutEntry(heap[apps[k]].id, Params(apps[k]))]

\* applications.map((app) => ({ id, displayName, description, type, endpoint }))
ApplicationEntries(apps) ==
    [k \in 1..Len(apps) |-> [id |-> heap[apps[k]].id,
                              endpoint |-> <<"app", "a", heap[apps[k]].id>>]]

\* the 200 response schema of the listing: every entry's id is a string
SchemaAccepts(body) == \A k \in 1..Len(body) : body[k].id # NoId

PanelInit ==
    /\ panelReply = NoReply
    /\ hookReturn = [hook |-> "none", self |-> NoApp, returned |-> NoApp]

\* Pin-create requests.
MaxPinRequests == 2

\* [...previousPins.rows[0].pinned_applications, applicationId]
NewPins_Prepend(previousPins, applicationId) == <<applicationId>> \o previousPins

NewPins(previousPins, applicationId) == Append(previousPins, applicationId)

\* pinned_applications.includes(applicationId)
Includes(pins, applicationId) == \E k \in 1..Len(pins) : pins[k] = applicationId

\* no pin-create request yet; every descriptor declares a frontend
ShortcutInit ==
    /\ descriptors = [p \in Paths |-> FrontendOnly]
    /\ pinReqs = {}

----------------------------------------------------------------------------
\* Filesystem startup.
MaxBoots == 2
MaxFailures == 1

\* filesystem.commonPaths
rootDirectory == <<"fs">>
teamsDirectory == <<"fs", "Teams">>
usersDirectory == <<"fs", "Users">>
defaultsDirectory == <<"fs", "Defaults">>
systemDirectory == <<"fs", "System">>

\* path.join(globalCacheDirectory(), "panel/applications") and the directory above it
PanelApplicationsDirectory == GlobalCacheDirectory \o <<"panel/applications">>
PanelDirectory == GlobalCacheDirectory \o <<"panel">>

\* What is at a path: a directory, or a file with some content.
Directory == <<"dir">>
DefaultsAsset(name) == <<"asset", name>>
OtherImage == <<"asset", "placed by the operator">>

\* the provisioning steps of __internal_startup, in program order
FsSteps ==
    << [op |-> "mkdir", path |-> rootDirectory, asset |-> ""],
       [op |-> "mkdir", path |-> GlobalCacheDirectory, asset |-> ""],
       [op |-> "mkdir", path |-> teamsDirectory, asset |-> ""],
       [op |-> "mkdir", path |-> usersDirectory, asset |-> ""],
       [op |-> "mkdir", path |-> defaultsDirectory, asset |-> ""],
       [op |-> "mkdir", path |-> systemDirectory, asset |-> ""],
       [op |-> "cp", path |-> defaultsDirectory \o <<"userAvatar.png">>,
        asset |-> "userAvatar.png"],
       [op |-> "cp", path |-> systemDirectory \o <<"loginBackground.avif">>,
        asset |-> "default_login_background.avif"],
       [op |-> "cp", path |-> systemDirectory \o <<"instanceLogo.png">>,
        asset |-> "yourdash.png"],
       [op |-> "mkdirRecursive", path |-> PanelApplicationsDirectory, asset |-> ""],
       [op |-> "cp", path |-> InvalidIconPath, asset |-> "yourdash.png"] >>

FsPaths == {FsSteps[k].path : k \in 1..Len(FsSteps)} \cup {PanelDirectory}

\* the directory a path is in; the working directory (<<>>) holds the root
Parent(p) ==
    IF p = PanelApplicationsDirectory THEN PanelDirectory ELSE SubSeq(p, 1, Len(p) - 1)

Ancestors(p) ==
    {q \in FsPaths : q \in {Parent(p), Parent(Parent(p)), Parent(Parent(Parent(p)))}}

\* doesPathExist: fs.access(path, F_OK) succeeds
doesPathExist(d, p) == IF p = <<>> THEN TRUE ELSE d[p] # Absent

\* Faulty variant: the step is done whether or not the path exists
NeedsProvisioning_Always(d, step) == TRUE

\* if (!(await this.doesPathExist(...)))
NeedsProvisioning(d, step) == ~doesPathExist(d, step.path)

\* fs.mkdir without `recursive` needs the parent directory; fs.mkdir with
\* `recursive` and fs.cp create the missing directories above the path
CanSucceed(d, step) == step.op = "mkdir" => doesPathExist(d, Parent(step.path))

\* what a step leaves at its path when it succeeds
StepContent(step) == IF step.op = "cp" THEN DefaultsAsset(step.asset) ELSE Directory

\* the filesystem after the step's mkdir or cp has succeeded
Provisioned(d, step) ==
    [p \in FsPaths |->
       IF p = step.path THEN StepContent(step)
       ELSE IF p \in Ancestors(step.path) /\ d[p] = Absent THEN Directory
       ELSE d[p]]

\* Faulty variant: only the asset copies are inside try/catch
Caught_AssetsOnly(step) == step.op = "cp"

\* every mkdir and cp of __internal_startup is inside its own try/catch
Caught(step) == TRUE

\* a filesystem in which a file or directory exists only inside an existing directory
WellFormed(d) == \A p \in FsPaths : d[p] # Absent => doesPathExist(d, Parent(p))

DefaultContent(p) ==
    IF p = PanelDirectory THEN Directory
    ELSE StepContent(FsSteps[CHOOSE k \in 1..Len(FsSteps) : FsSteps[k].path = p])

\* the filesystem in which exactly the paths in `present` exist
DiskOf(present, fallback) ==
    [p \in FsPaths |-> IF p \notin present THEN Absent
                       ELSE IF p = InvalidIconPath THEN fallback
                       ELSE DefaultContent(p)]

\* the filesystems a boot can find: any well-formed part of the layout, the
\* fallback image being the default one or another image
Disks ==
    {d \in {DiskOf(present, fallback) : present \in SUBSET FsPaths,
                                        fallback \in {DefaultsAsset("yourdash.png"), OtherImage}} :
       WellFormed(d)}

\* the filesystem once every step has succeeded
ProvisionedDisk == DiskOf(FsPaths, DefaultsAsset("yourdash.png"))

\* filesystem startup is over and has provisioned everything
FsInit ==
    /\ disk = ProvisionedDisk
    /\ fsStep = Len(FsSteps) + 1
    /\ fsLog = <<>>
    /\ boots = 1
    /\ failures = 0

Init ==
    /\ linkDevelopmentApplications \in BOOLEAN
    /\ installedCfg \in SeqsUpTo(Paths, MaxInstalled) \cup {DiscoveryError}
    /\ modules \in [Paths -> ModuleKinds]
    /\ RegistryInit
    /\ files = InitialFiles({})
    /\ IconInit
    /\ pinned = <<>>
    /\ PanelInit
    /\ ShortcutInit
    /\ FsInit

\* How a loadApplication call completes: the loop goes on, or the exception
\* leaves loadApplication, rejects startup() and reaches __internal_init's catch.
LoadReturns(result) ==
    /\ loadLog' = Append(loadLog, [path |-> installed[idx], result |-> result, app |-> cur])
    /\ cur' = NoApp
    /\ idx' = idx + 1
    /\ pc' = "loop"
    /\ UNCHANGED status

LoadThrows ==
    /\ loadLog' = Append(loadLog, [path |-> installed[idx], result |-> "threw", app |-> cur])
    /\ cur' = NoApp
    /\ pc' = "failed"
    /\ status' = "NON_FUNCTIONAL"
    /\ UNCHANGED idx

\* Applications.getInstalledApplications, awaited by Instance.startup
getInstalledApplications ==
    /\ pc = "discover"
    /\ IF DiscoveryRejects(installedCfg)
       THEN /\ pc' = "failed"
            /\ status' = "NON_FUNCTIONAL"
            /\ UNCHANGED installed
       ELSE /\ installed' = InstalledValue(installedCfg)
            /\ pc' = "loop"
            /\ UNCHANGED status
    /\ UNCHANGED <<selfPing, linkDevelopmentApplications, installedCfg, modules, idx, cur, heap,
                   loadedApplications, loadLog, uninstallLog, listening>>
    /\ UNCHANGED <<iconVars, panelVars, fsVars, shortcutVars>>

\* Faulty variant: the server is started before the applications are loaded
LoopStep_ListenFirst ==
    /\ pc = "loop"
    /\ pc' = "listen"
    /\ UNCHANGED <<selfPing, linkDevelopmentApplications, installedCfg, modules, installed, idx, cur,
                   heap, loadedApplications, loadLog, uninstallLog, status, listening>>
    /\ UNCHANGED <<iconVars, panelVars, fsVars, shortcutVars>>

\* for (const app of applications) { await this.applications.loadApplication(app); ... }
LoopStep ==
    /\ pc = "loop"
    /\ pc' = IF idx <= Len(installed) THEN "verify" ELSE "listen"
    /\ UNCHANGED <<selfPing, linkDevelopmentApplications, installedCfg, modules, installed, idx, cur,
                   heap, loadedApplications, loadLog, uninstallLog, status, listening>>
    /\ UNCHANGED <<iconVars, panelVars, fsVars, shortcutVars>>

\* What Bun.spawnSync can do: run pnpm to exit code 0, to a failure exit code,
\* or throw because the process cannot be started.
SpawnOutcomes == {"exit0", "exitNonZero", "throws"}

\* await this.verifyApplication(applicationPath), before the try block
verifyApplication ==
    /\ pc = "verify"
    /\ IF linkDevelopmentApplications
       THEN \E r1 \in SpawnOutcomes, r2 \in SpawnOutcomes :
              IF r1 = "throws" \/ r2 = "throws"
              THEN LoadThrows
              ELSE /\ pc' = "import"
                   /\ UNCHANGED <<idx, cur, loadLog, status>>
       ELSE /\ pc' = "import"
            /\ UNCHANGED <<idx, cur, loadLog, status>>
    /\ UNCHANGED <<selfPing, linkDevelopmentApplications, installedCfg, modules, installed, heap,
                   loadedApplications, uninstallLog, listening>>
    /\ UNCHANGED <<iconVars, panelVars, fsVars, shortcutVars>>

\* try { let applicationImport = await import(...index.ts)
ImportModule ==
    /\ pc = "import"
    /\ IF modules[installed[idx]] \in {"missing", "importThrows"}
       THEN LoadReturns("null")
       ELSE /\ pc' = "construct"
            /\ UNCHANGED <<idx, cur, loadLog, status>>
    /\ UNCHANGED <<selfPing, linkDevelopmentApplications, installedCfg, modules, installed, heap,
                   loadedApplications, uninstallLog, listening>>
    /\ UNCHANGED <<iconVars, panelVars, fsVars, shortcutVars>>

\* let application = new applicationImport.default();
Construct ==
    /\ pc = "construct"
    /\ IF modules[installed[idx]] \in {"noDefaultExport", "ctorThrows", "descriptorUndefined"}
       THEN /\ LoadReturns("null")
            /\ UNCHANGED heap
       ELSE /\ heap' = Append(heap, YourDashApplication(DescriptorId(installed[idx])))
            /\ cur' = Len(heap) + 1
            /\ pc' = "setPath"
            /\ UNCHANGED <<idx, loadLog, status>>
    /\ UNCHANGED <<selfPing, linkDevelopmentApplications, installedCfg, modules, installed,
                   loadedApplications, uninstallLog, listening>>
    /\ UNCHANGED <<iconVars, panelVars, fsVars, shortcutVars>>

\* application.__internal_initializedPath = path.posix.join(...)
SetInitializedPath ==
    /\ pc = "setPath"
    /\ heap' = [heap EXCEPT ![cur].initializedPath = ResolvedPath(installed[idx]),
                            ![cur].pathSets = @ + 1]
    /\ pc' = "push"
    /\ UNCHANGED <<selfPing, linkDevelopmentApplications, installedCfg, modules, installed, idx, cur,
                   loadedApplications, loadLog, uninstallLog, status, listening>>
    /\ UNCHANGED <<iconVars, panelVars, fsVars, shortcutVars>>

\* this.loadedApplications.push(application);
PushApplication ==
    /\ pc = "push"
    /\ loadedApplications' = Append(loadedApplications, cur)
    /\ pc' = "onLoad"
    /\ UNCHANGED <<selfPing, linkDevelopmentApplications, installedCfg, modules, installed, idx, cur,
                   heap, loadLog, uninstallLog, status, listening>>
    /\ UNCHANGED <<iconVars, panelVars, fsVars, shortcutVars>>

\* application?.onLoad?.(); return application;   } catch (e) { ...; return null; }
CallOnLoad ==
    /\ pc = "onLoad"
    /\ heap' = [heap EXCEPT ![cur].onLoadCalls = @ + 1]
    /\ IF modules[installed[idx]] = "onLoadThrows"
       THEN LoadReturns("null")
       ELSE LoadReturns("instance")
    /\ UNCHANGED <<selfPing, linkDevelopmentApplications, installedCfg, modules, installed,
                   loadedApplications, uninstallLog, listening>>
    /\ UNCHANGED <<iconVars, panelVars, fsVars, shortcutVars>>

\* Faulty variant: the status is set before the listen is attempted
BeginListening_StatusFirst ==
    /\ pc = "listen"
    /\ status' = "OK"
    /\ \E ok \in BOOLEAN :
         IF ok
         THEN /\ listening' = TRUE
              /\ selfPing' = "pending"
              /\ pc' = "done"
         ELSE /\ pc' = "exited"
              /\ UNCHANGED <<listening, selfPing>>
    /\ UNCHANGED <<linkDevelopmentApplications, installedCfg, modules, installed, idx, cur,
                   heap, loadedApplications, loadLog, uninstallLog>>
    /\ UNCHANGED <<iconVars, panelVars, fsVars, shortcutVars>>

\* await this.requestManager.__internal_beginListening(): app.listen, then the
\* self-ping is sent without being awaited; startup runs on to `return true` and
\* __internal_init's .then sets the status, before any request is handled. A
\* failed listen ends the process.
BeginListening ==
    /\ pc = "listen"
    /\ \E ok \in BOOLEAN :
         IF ok
         THEN /\ listening' = TRUE
              /\ selfPing' = "pending"
              /\ status' = "OK"
              /\ pc' = "done"
         ELSE /\ pc' = "exited"
              /\ UNCHANGED <<listening, selfPing, status>>
    /\ UNCHANGED <<linkDevelopmentApplications, installedCfg, modules, installed, idx, cur,
                   heap, loadedApplications, loadLog, uninstallLog>>
    /\ UNCHANGED <<iconVars, panelVars, fsVars, shortcutVars>>

\* the self-ping's reply arrives: success sets the status, anything else is logged
SelfPing ==
    /\ selfPing = "pending"
    /\ \E success \in BOOLEAN :
         IF success
         THEN /\ selfPing' = "ok"
              /\ status' = "OK"
         ELSE /\ selfPing' = "failed"
              /\ UNCHANGED status
    /\ UNCHANGED <<linkDevelopmentApplications, installedCfg, modules, pc, installed, idx,
                   cur, heap, loadedApplications, loadLog, uninstallLog, listening>>
    /\ UNCHANGED <<iconVars, panelVars, fsVars, shortcutVars>>

\* where startup is suspended on an await, so that another task can run
AwaitPoints == {"discover", "loop", "verify", "import", "listen", "done"}

\* async uninstallApplication(applicationId) { return this; }
uninstallApplication(applicationId) ==
    /\ pc \in AwaitPoints
    /\ Len(uninstallLog) < MaxUninstalls
    /\ uninstallLog' = Append(uninstallLog, applicationId)
    /\ UNCHANGED <<selfPing, linkDevelopmentApplications, installedCfg, modules, pc, installed, idx,
                   cur, heap, loadedApplications, loadLog, status, listening>>
    /\ UNCHANGED <<iconVars, panelVars, fsVars, shortcutVars>>

----------------------------------------------------------------------------
\* Icon requests. Each action runs a handler from one await to the next.

\* A handler's locals and reply, with history of its entry: how many requests
\* for the same (applicationId, kind) came before it, and how many of those
\* were still being served.
NewRequest(applicationId, kind, app, arrival, overlap) ==
    [applicationId |-> applicationId, kind |-> kind, app |-> app, pc |-> "exists",
     hit |-> FALSE, checkedSource |-> FALSE, mkdirs |-> 0, resizes |-> 0,
     code |-> 0, sent |-> None, bytes |-> Absent, read |-> Absent,
     arrival |-> arrival, overlap |-> overlap]

\* return res.status(404)
NotFound(r) == [r EXCEPT !.pc = "done", !.code = 404]

\* the rejected handler reaches the error handler
ServerError(r) == [r EXCEPT !.pc = "done", !.code = 500]

\* return this.sendFile(res, filePath, "image/webp")
sendFile(r, filePath, content) ==
    [r EXCEPT !.pc = "done", !.code = 200, !.sent = filePath, !.bytes = content]

\* Faulty variant: every route writes the large-grid cache file
ResizeArgs_SharedDest(r) ==
    [src |-> SourcePath(heap[r.app].initializedPath, r.kind),
     width |-> IconSize, height |-> IconSize,
     dest |-> CachePath(heap[r.app].id, "largeGrid"), format |-> "webp"]

\* the arguments of one resizeImage call
ResizeArgs(r) ==
    [src |-> SourcePath(heap[r.app].initializedPath, r.kind),
     width |-> IconSize, height |-> IconSize,
     dest |-> CachePath(heap[r.app].id, r.kind), format |-> "webp"]

\* the handler calls resizeImage(...) and awaits it
CallResize(r) == [r EXCEPT !.pc = "resize", !.resizes = @ + 1]

\* a request enters the bag; a request in the bag moves on
Requests == BagToSet(reqs)
AddRequest(r) == reqs (+) SetToBag({r})

\* the requests made so far for one (applicationId, kind)
OnPair(applicationId, kind) ==
    {r \in Requests : r.applicationId = applicationId /\ r.kind = kind}
MoveRequest(r, next) == (reqs (-) SetToBag({r})) (+) SetToBag({next})

\* the routes' entry: find the application, 404 when there is none
IconRequest(applicationId, kind) ==
    /\ listening
    /\ BagCardinality(reqs) < MaxRequests
    /\ LET app == Find(applicationId)
           before == OnPair(applicationId, kind)
           r == NewRequest(applicationId, kind, app, Cardinality(before),
                           Cardinality({q \in before : q.pc # "done"}))
       IN  reqs' = AddRequest(IF app = NoApp THEN NotFound(r) ELSE r)
    /\ UNCHANGED <<fsVars, shortcutVars, panelVars, regVars, files, cacheDirs, everExisted, sourceChanges, resizeLog>>

\* if (await doesPathExist(cache path)) return this.sendFile(cache path)
CheckCache(r) ==
    /\ r.pc = "exists"
    /\ LET cachePath == CachePath(heap[r.app].id, r.kind)
           exists == files[cachePath] # Absent
           seen == [r EXCEPT !.hit = exists]
       IN  reqs' = MoveRequest(r, IF AfterCacheCheck(exists) = "sendCache"
                                  THEN sendFile(seen, cachePath, files[cachePath])
                                  ELSE [seen EXCEPT !.pc = "mkdir"])
    /\ UNCHANGED <<fsVars, shortcutVars, panelVars, regVars, files, cacheDirs, everExisted, sourceChanges, resizeLog>>

\* Faulty variant: a request whose cache directory cannot be created drops
\* the application from the registry
MakeCacheDir_DropsApplication(r) ==
    /\ r.pc = "mkdir"
    /\ reqs' = MoveRequest(r, ServerError(r))
    /\ loadedApplications' = SelectSeq(loadedApplications, LAMBDA o : o # r.app)
    /\ UNCHANGED <<selfPing, linkDevelopmentApplications, installedCfg, modules, pc, installed,
                   idx, cur, heap, loadLog, uninstallLog, status, listening>>
    /\ UNCHANGED <<fsVars, shortcutVars, panelVars, files, cacheDirs, everExisted, sourceChanges, resizeLog>>

\* await mkdir(cache subdirectory, { recursive: true }), then the next call
MakeCacheDir(r) ==
    /\ r.pc = "mkdir"
    /\ \E ok \in BOOLEAN :
         IF ~ok
         THEN /\ reqs' = MoveRequest(r, ServerError(r))
              /\ UNCHANGED <<cacheDirs, resizeLog>>
         ELSE /\ cacheDirs' = cacheDirs \cup {heap[r.app].id}
              /\ IF AfterMkdir(r.kind) = "resize"
                 THEN /\ reqs' = MoveRequest(r, CallResize([r EXCEPT !.mkdirs = @ + 1]))
                      /\ resizeLog' = Append(resizeLog, ResizeArgs(r))
                 ELSE /\ reqs' = MoveRequest(r, [r EXCEPT !.mkdirs = @ + 1, !.pc = "source"])
                      /\ UNCHANGED resizeLog
    /\ UNCHANGED <<fsVars, shortcutVars, panelVars, regVars, files, everExisted, sourceChanges>>

\* if (!(await doesPathExist(source icon))) return this.sendFile(invalidIcon.webp)
CheckSource(r) ==
    /\ r.pc = "source"
    /\ LET checked == [r EXCEPT !.checkedSource = TRUE]
           exists == files[SourcePath(heap[r.app].initializedPath, r.kind)] # Absent
       IN  IF AfterSourceCheck(exists) = "resize"
           THEN /\ reqs' = MoveRequest(r, CallResize(checked))
                /\ resizeLog' = Append(resizeLog, ResizeArgs(r))
           ELSE /\ reqs' = MoveRequest(r, sendFile(checked, InvalidIconPath, files[InvalidIconPath]))
                /\ UNCHANGED resizeLog
    /\ UNCHANGED <<fsVars, shortcutVars, panelVars, regVars, files, cacheDirs, everExisted, sourceChanges>>

\* resizeImage reads the source and begins to write the destination; it
\* rejects when the source cannot be read or the transform fails
resizeImageRead(r) ==
    /\ r.pc = "resize"
    /\ LET args == ResizeArgs(r)
       IN  \E transforms \in BOOLEAN :
             IF files[args.src] = Absent \/ ~transforms
             THEN /\ reqs' = MoveRequest(r, ServerError(r))
                  /\ UNCHANGED files
             ELSE /\ reqs' = MoveRequest(r, [r EXCEPT !.pc = "write", !.read = files[args.src]])
                  /\ files' = [files EXCEPT ![args.dest] = Partial]
    /\ UNCHANGED <<fsVars, shortcutVars, panelVars, regVars, cacheDirs, everExisted, sourceChanges, resizeLog>>

\* resizeImage completes the destination file; the handler then streams it
resizeImageDone(r) ==
    /\ r.pc = "write"
    /\ LET args == ResizeArgs(r)
           out == Rendition(r.read, args.width, args.height, args.format)
       IN  /\ files' = [files EXCEPT ![args.dest] = out]
           /\ reqs' = MoveRequest(r, sendFile(r, args.dest, out))
    /\ UNCHANGED <<fsVars, shortcutVars, panelVars, regVars, cacheDirs, everExisted, sourceChanges, resizeLog>>

\* the environment installs, replaces or deletes an application's source icon
ChangeSourceIcon(f, content) ==
    /\ listening
    /\ sourceChanges < MaxSourceChanges
    /\ files[f] # content
    /\ files' = [files EXCEPT ![f] = content]
    /\ everExisted' = IF content = Absent THEN everExisted ELSE everExisted \cup {f}
    /\ sourceChanges' = sourceChanges + 1
    /\ UNCHANGED <<fsVars, shortcutVars, panelVars, regVars, cacheDirs, reqs, resizeLog>>

\* GET /core/panel/applications
ListApplications ==
    /\ listening
    /\ panelReply' =
         IF SchemaAccepts(ApplicationEntries(loadedApplications))
         THEN [route |-> "applications", code |-> 200,
               body |-> ApplicationEntries(loadedApplications),
               apps |-> loadedApplications]
         ELSE [route |-> "applications", code |-> 500, body |-> <<>>, apps |-> <<>>]
    /\ UNCHANGED <<fsVars, shortcutVars, regVars, iconVars, pinned, hookReturn>>

\* GET /core/panel/quick-shortcuts
QuickShortcuts ==
    /\ listening
    /\ panelReply' =
         IF pinned = NoRow
         THEN [route |-> "quick-shortcuts", code |-> 500, body |-> <<>>, apps |-> <<>>]
         ELSE [route |-> "quick-shortcuts", code |-> 200,
               body |-> ShortcutEntries(PinnedApplications(pinned)),
               apps |-> PinnedApplications(pinned)]
    /\ UNCHANGED <<fsVars, shortcutVars, regVars, iconVars, pinned, hookReturn>>

\* some code holding a loaded instance calls one of its default hooks
CallHook(self, hook) ==
    /\ pc \in AwaitPoints
    /\ self \in {loadedApplications[k] : k \in 1..Len(loadedApplications)}
    /\ HasDefaultHook(self, hook)
    /\ hookReturn' = [hook |-> hook, self |-> self, returned |-> DefaultHook(hook, self)]
    /\ UNCHANGED <<fsVars, shortcutVars, regVars, iconVars, pinned, panelReply>>

\* one provisioning step of Filesystem.__internal_startup, which Instance.startup
\* awaits first: test the path, create or copy it if it is missing, log the outcome
FilesystemStep ==
    /\ pc = "filesystem"
    /\ LET step == FsSteps[fsStep]
           Logged(outcome) ==
               fsLog' = Append(fsLog, [boot |-> boots, step |-> fsStep,
                                       path |-> step.path, outcome |-> outcome])
           Continues ==
               /\ fsStep' = fsStep + 1
               /\ pc' = IF fsStep = Len(FsSteps) THEN "discover" ELSE pc
               /\ UNCHANGED status
       IN  IF ~NeedsProvisioning(disk, step)
           THEN /\ Logged("verified")
                /\ Continues
                /\ UNCHANGED <<disk, failures>>
           ELSE \E ok \in BOOLEAN :
                  /\ ok => CanSucceed(disk, step)
                  /\ ~ok => (failures < MaxFailures \/ ~CanSucceed(disk, step))
                  /\ failures' = IF ~ok /\ CanSucceed(disk, step) THEN failures + 1
                                 ELSE failures
                  /\ IF ok
                     THEN /\ disk' = Provisioned(disk, step)
                          /\ Logged("created")
                          /\ Continues
                     ELSE IF Caught(step)
                     THEN /\ Logged("failed")
                          /\ Continues
                          /\ UNCHANGED disk
                     ELSE /\ pc' = "failed"
                          /\ status' = "NON_FUNCTIONAL"
                          /\ UNCHANGED <<disk, fsStep, fsLog>>
    /\ UNCHANGED <<boots, selfPing, linkDevelopmentApplications, installedCfg, modules,
                   installed, idx, cur, heap, loadedApplications, loadLog, uninstallLog,
                   listening>>
    /\ UNCHANGED <<iconVars, panelVars, shortcutVars>>

\* the process is started again on the same filesystem: new Instance()
Restart ==
    /\ pc \in {"done", "failed", "exited"}
    /\ boots < MaxBoots
    /\ boots' = boots + 1
    /\ pc' = "filesystem"
    /\ fsStep' = 1
    /\ installed' = <<>>
    /\ idx' = 1
    /\ cur' = NoApp
    /\ heap' = <<>>
    /\ loadedApplications' = <<>>
    /\ loadLog' = <<>>
    /\ uninstallLog' = <<>>
    /\ status' = "UNKNOWN"
    /\ listening' = FALSE
    /\ selfPing' = "none"
    /\ UNCHANGED <<linkDevelopmentApplications, installedCfg, modules, disk, fsLog, failures>>
    /\ UNCHANGED <<iconVars, panelVars, shortcutVars>>

\* POST /core/panel/quick-shortcuts/create: a request as it arrives
NewPinRequest(applicationId) ==
    [n |-> Cardinality(pinReqs) + 1, applicationId |-> applicationId, pc |-> "select",
     previousPins |-> <<>>, newPins |-> <<>>, reply |-> "none",
     before |-> pinned, after |-> pinned,
     alone |-> \A other \in pinReqs : other.pc = "done"]

\* the handler returns: `reply` is the success it returns, or "undefined"
PinReply(r, reply, pins) == [r EXCEPT !.pc = "done", !.reply = reply, !.after = pins]

\* the handler up to its first await: find() and, if found, the SELECT is sent
PinCreate(applicationId) ==
    /\ listening
    /\ Cardinality(pinReqs) < MaxPinRequests
    /\ LET r == NewPinRequest(applicationId)
           others == {IF other.pc = "done" THEN other ELSE [other EXCEPT !.alone = FALSE] :
                        other \in pinReqs}
       IN  pinReqs' = others \cup
                      {IF Find(applicationId) = NoApp THEN PinReply(r, "undefined", pinned)
                       ELSE r}
    /\ UNCHANGED descriptors
    /\ UNCHANGED <<fsVars, regVars, iconVars, panelVars>>

\* the SELECT completes: includes() test, newPins, and the UPDATE is sent
PinSelect(r) ==
    /\ r.pc = "select"
    /\ \E ok \in BOOLEAN :
         pinReqs' = (pinReqs \ {r}) \cup
           {IF ~ok \/ pinned = NoRow THEN PinReply(r, "false", pinned)
            ELSE IF Includes(pinned, r.applicationId) THEN PinReply(r, "false", pinned)
            ELSE [r EXCEPT !.pc = "update", !.previousPins = pinned,
                           !.newPins = NewPins(pinned, r.applicationId)]}
    /\ UNCHANGED descriptors
    /\ UNCHANGED <<fsVars, regVars, iconVars, panelVars>>

\* the UPDATE completes: the row holds newPins
PinUpdate(r) ==
    /\ r.pc = "update"
    /\ \E ok \in BOOLEAN :
         IF ok
         THEN /\ pinned' = r.newPins
              /\ pinReqs' = (pinReqs \ {r}) \cup {PinReply(r, "true", r.newPins)}
         ELSE /\ pinReqs' = (pinReqs \ {r}) \cup {PinReply(r, "false", pinned)}
              /\ UNCHANGED pinned
    /\ UNCHANGED <<descriptors, panelReply, hookReturn>>
    /\ UNCHANGED <<fsVars, regVars, iconVars>>

RegistryNext ==
    \/ getInstalledApplications
    \/ LoopStep
    \/ verifyApplication
    \/ ImportModule
    \/ Construct
    \/ SetInitializedPath
    \/ PushApplication
    \/ CallOnLoad
    \/ BeginListening

Next ==
    \/ RegistryNext
    \/ SelfPing
    \/ \E applicationId \in Paths : uninstallApplication(applicationId)

Spec == Init /\ [][Next]_vars

\* The icon routes, served once startup has loaded the applications found:
\* app-a loads, app-b's entry module is missing, so app-b resolves to no instance.
LoadedSourceFiles == {SourcePath(ResolvedPath("app-a"), k) : k \in RenditionKinds}

IconsInit ==
    /\ linkDevelopmentApplications = FALSE
    /\ installedCfg = <<"app-a", "app-b">>
    /\ modules = [p \in Paths |-> IF p = "app-a" THEN "ok" ELSE "missing"]
    /\ RegistryInit
    /\ \E sources \in SUBSET LoadedSourceFiles : files = InitialFiles(sources)
    /\ IconInit
    /\ pinned = <<>>
    /\ PanelInit
    /\ ShortcutInit
    /\ FsInit

IconsNext ==
    \/ RegistryNext
    \/ \E applicationId \in Paths, kind \in RenditionKinds : IconRequest(applicationId, kind)
    \/ \E r \in Requests : CheckCache(r)
    \/ \E r \in Requests : MakeCacheDir(r)
    \/ \E r \in Requests : CheckSource(r)
    \/ \E r \in Requests : resizeImageRead(r)
    \/ \E r \in Requests : resizeImageDone(r)
    \/ \E f \in LoadedSourceFiles, content \in SourceContents \cup {Absent} : ChangeSourceIcon(f, content)

SpecIcons == IconsInit /\ [][IconsNext]_vars

\* The panel listing routes and the hooks, over the loads that matter to them:
\* a module that loads, one that is missing, one whose onLoad throws, and one
\* whose descriptor has no id.
PanelModuleKinds == {"ok", "missing", "onLoadThrows", "descriptorNoId"}

PanelScenarioInit ==
    /\ linkDevelopmentApplications = FALSE
    /\ installedCfg \in SeqsUpTo(Paths, MaxInstalled)
    /\ modules \in [Paths -> PanelModuleKinds]
    /\ RegistryInit
    /\ files = InitialFiles({})
    /\ IconInit
    /\ pinned \in SeqsUpTo(PinIds, MaxPins) \cup {NoRow}
    /\ PanelInit
    /\ ShortcutInit
    /\ FsInit

PanelNext ==
    \/ RegistryNext
    \/ ListApplications
    \/ QuickShortcuts
    \/ \E self \in 1..Len(heap), hook \in Hooks : CallHook(self, hook)

SpecPanel == PanelScenarioInit /\ [][PanelNext]_vars

\* Boots of the process on a filesystem in any state of provisioning; one
\* application is installed and loads.
FilesystemInit ==
    /\ linkDevelopmentApplications = FALSE
    /\ installedCfg = <<"app-a">>
    /\ modules = [p \in Paths |-> IF p = "app-a" THEN "ok" ELSE "missing"]
    /\ pc = "filesystem"
    /\ installed = <<>>
    /\ idx = 1
    /\ cur = NoApp
    /\ heap = <<>>
    /\ loadedApplications = <<>>
    /\ loadLog = <<>>
    /\ uninstallLog = <<>>
    /\ status = "UNKNOWN"
    /\ listening = FALSE
    /\ selfPing = "none"
    /\ files = InitialFiles({})
    /\ IconInit
    /\ pinned = <<>>
    /\ PanelInit
    /\ ShortcutInit
    /\ disk \in Disks
    /\ fsStep = 1
    /\ fsLog = <<>>
    /\ boots = 1
    /\ failures = 0

FilesystemNext ==
    \/ FilesystemStep
    \/ RegistryNext
    \/ Restart

SpecFilesystem == FilesystemInit /\ [][FilesystemNext]_vars

\* The quick-shortcut routes of one user: both applications load, their
\* descriptors declare any wiring, and the pin list holds any identifiers once each.
NoDuplicates(pins) == \A j, k \in 1..Len(pins) : pins[j] = pins[k] => j = k

ShortcutsInit ==
    /\ linkDevelopmentApplications = FALSE
    /\ installedCfg = <<"app-a", "app-b">>
    /\ modules = [p \in Paths |-> "ok"]
    /\ RegistryInit
    /\ files = InitialFiles({})
    /\ IconInit
    /\ pinned \in {pins \in SeqsUpTo(PinIds, MaxPins) : NoDuplicates(pins)} \cup {NoRow}
    /\ PanelInit
    /\ descriptors \in [Paths -> Wirings]
    /\ pinReqs = {}
    /\ FsInit

ShortcutsNext ==
    \/ RegistryNext
    \/ QuickShortcuts
    \/ \E applicationId \in PinIds : PinCreate(applicationId)
    \/ \E r \in pinReqs : PinSelect(r)
    \/ \E r \in pinReqs : PinUpdate(r)

SpecShortcuts == ShortcutsInit /\ [][ShortcutsNext]_vars

----------------------------------------------------------------------------
\* Properties of the registry.

Live == {loadedApplications[k] : k \in 1..Len(loadedApplications)}

\* C1: every loadApplication call on a plugin that fails to load (entry module
\* missing or throwing, constructor throwing, malformed descriptor, onLoad
\* throwing, verification failing) returns null, and no call lets an exception
\* escape to its caller.
C1_LoadReturnsNullNeverThrows ==
    \A k \in 1..Len(loadLog) :
        /\ loadLog[k].result # "threw"
        /\ modules[loadLog[k].path] \in FailingKinds => loadLog[k].result = "null"

\* the load loop stopped on an exception after it had begun loading
LoopAborted == pc = "failed" /\ Len(loadLog) > 0

\* the module kinds whose load does not fail
Loadable(applicationPath) == modules[applicationPath] \in {"ok", "descriptorNoId"}

\* C2: a plugin's load failure never aborts the load loop or the startup: once
\* the loop is over it has attempted every discovered identifier, and every
\* identifier whose load does not fail has its instance in the live set.
C2_LoadFailureIsolated ==
    /\ ~LoopAborted
    /\ pc \in {"listen", "done", "exited"} =>
         /\ Len(loadLog) = Len(installed)
         /\ \A p \in Paths :
              Cardinality({k \in 1..Len(installed) : installed[k] = p /\ Loadable(p)})
                <= Cardinality({o \in Live : heap[o].initializedPath = ResolvedPath(p)})

\* C3: whenever loadApplication returned null for a plugin, the instance it
\* constructed (if any) is not in the live set.
C3_LiveOnlySuccessfulLoads ==
    \A k \in 1..Len(loadLog) :
        loadLog[k].result = "null" => loadLog[k].app \notin Live

\* C4: an instance is in the live set only after its resolvedPath was set and
\* its onLoad was invoked exactly once.
C4_OnLoadBeforeAppend ==
    \A o \in Live : heap[o].pathSets = 1 /\ heap[o].onLoadCalls = 1

\* C5: an uninstallApplication(id) step leaves no instance with that id in the
\* live set, and has invoked onBeforeUninstall exactly once on the instance
\* that matched.
C5_UninstallRemoves ==
    [][Len(uninstallLog') > Len(uninstallLog) =>
         LET id == uninstallLog'[Len(uninstallLog')]
             app == Find(id)
         IN  /\ FindIn(loadedApplications', heap', id) = NoApp
             /\ app # NoApp =>
                  heap'[app].onBeforeUninstallCalls = heap[app].onBeforeUninstallCalls + 1]_vars

\* C6: no two instances in the live set have the same descriptor id.
C6_UniqueIds ==
    \A i, j \in 1..Len(loadedApplications) :
        i # j => heap[loadedApplications[i]].id # heap[loadedApplications[j]].id

\* C7: a constructed instance that has not been through the path assignment
\* holds the sentinel; every instance in the live set holds a resolvedPath that
\* is not the sentinel and was assigned exactly once; and a step never changes
\* the resolvedPath of an instance in the live set.
C7_ResolvedPathSetOnce ==
    /\ [](/\ \A o \in 1..Len(heap) :
               heap[o].pathSets = 0 => heap[o].initializedPath = NOT_YET_LOADED
          /\ \A o \in Live :
               /\ heap[o].initializedPath # NOT_YET_LOADED
               /\ heap[o].pathSets = 1)
    /\ [][\A k \in 1..Len(loadedApplications) :
            /\ loadedApplications'[k] = loadedApplications[k]
            /\ heap'[loadedApplications[k]].initializedPath
                 = heap[loadedApplications[k]].initializedPath]_vars

\* C7 witness: startup is over with two loaded instances, and an earlier
\* instance kept its path while the later one was constructed and loaded
C7_Witness ==
    /\ pc = "done"
    /\ Len(loadedApplications) = 2
    /\ \A o \in Live : heap[o].initializedPath \in {ResolvedPath(p) : p \in Paths}

----------------------------------------------------------------------------
\* Properties of the icon routes.

\* the identifier matches an instance of the live set
Resolves(applicationId) == \E o \in Live : heap[o].id = applicationId

\* the resizeImage calls whose destination lies in the application's cache directory
ResizesInto(applicationId) ==
    {k \in 1..Len(resizeLog) : SubSeq(resizeLog[k].dest, 1, Len(CacheDir(applicationId)))
                                 = CacheDir(applicationId)}

C9_CacheHitStreamsFile ==
    \A r \in Requests :
        r.hit =>
          /\ r.pc = "done" /\ r.code = 200
          /\ r.sent = CachePath(r.applicationId, r.kind)
          /\ r.bytes # Absent
          /\ ~r.checkedSource /\ r.mkdirs = 0 /\ r.resizes = 0

\* C9 witness: a cache hit served a finished rendition although the source
\* icon had by then been deleted or replaced
C9_Witness ==
    \E r \in Requests :
        /\ r.hit /\ r.pc = "done"
        /\ Len(r.bytes) = 4
        /\ files[SourcePath(heap[r.app].initializedPath, r.kind)] # r.bytes[4]

\* C10: a request of any rendition kind for a loaded plugin with no cache
\* file, whose cache directory could be created and whose source icon has never
\* existed, has streamed the fallback image, has not called the resize
\* operation, and has left no cache file.
C10_MissingSourceFallback ==
    \A r \in Requests :
        /\ r.pc = "done" /\ r.app # NoApp /\ ~r.hit /\ r.mkdirs = 1
        /\ SourcePath(heap[r.app].initializedPath, r.kind) \notin everExisted
        => /\ r.sent = InvalidIconPath
           /\ r.resizes = 0
           /\ files[CachePath(r.applicationId, r.kind)] = Absent

\* the rendition a completed resize of `content` leaves at the cache path
Expected(content) == <<"webp", 88, 88, content>>

\* C11: a request that missed the cache and found the source icon has invoked
\* the resize operation once, with the application's source icon path, 88 by
\* 88, the cache path of its (id, kind) and format webp; no other resize call
\* is ever made; and when the resize has completed the cache file exists and
\* the reply streams that cache file, the rendition of the source read.
C11_MissResizesIntoCachePath ==
    /\ \A r \in Requests :
         /\ (r.checkedSource /\ r.sent # InvalidIconPath) => r.resizes = 1
         /\ r.resizes >= 1 =>
              /\ r.resizes = 1
              /\ \E k \in 1..Len(resizeLog) :
                   resizeLog[k] = [src |-> heap[r.app].initializedPath \o <<SourceFileName(r.kind)>>,
                                   width |-> 88, height |-> 88,
                                   dest |-> CachePath(r.applicationId, r.kind),
                                   format |-> "webp"]
         /\ (r.pc = "done" /\ r.resizes = 1 /\ r.code = 200) =>
              /\ files[CachePath(r.applicationId, r.kind)] # Absent
              /\ r.sent = CachePath(r.applicationId, r.kind)
              /\ r.read \in SourceContents
              /\ r.bytes = Expected(r.read)
    /\ \A k \in 1..Len(resizeLog) :
         \E r \in Requests :
            /\ r.resizes = 1
            /\ resizeLog[k].dest = CachePath(r.applicationId, r.kind)

\* C11 witness: a small-grid request missed the cache, found the source icon,
\* resized it and streamed the cache file
C11_Witness ==
    \E r \in Requests :
        /\ r.kind = "smallGrid" /\ r.pc = "done" /\ ~r.hit /\ r.checkedSource
        /\ r.resizes = 1 /\ r.code = 200
        /\ r.sent = CachePath(r.applicationId, "smallGrid")

\* C12: of two requests for one (id, kind) made one after the other, when the
\* first found no cache file and generated it from the source icon, the second
\* is a cache hit returning the same bytes, and the two together have invoked
\* the resize operation once.
C12_SecondRequestIsHit ==
    \A r1, r2 \in Requests :
        /\ r1.applicationId = r2.applicationId /\ r1.kind = r2.kind
        /\ r1.arrival = 0 /\ r2.arrival = 1 /\ r2.overlap = 0
        /\ ~r1.hit /\ r1.code = 200 /\ r1.sent = CachePath(r1.applicationId, r1.kind)
        /\ r2.pc = "done"
        => /\ r2.hit /\ r2.code = 200
           /\ r2.bytes = r1.bytes
           /\ r1.resizes + r2.resizes = 1

\* C12 witness: the second of two sequential list-icon requests has been served
\* after the first generated the rendition
C12_Witness ==
    \E r1, r2 \in Requests :
        /\ r1.applicationId = r2.applicationId /\ r1.kind = "list" /\ r2.kind = "list"
        /\ r1.arrival = 0 /\ r2.arrival = 1 /\ r2.overlap = 0
        /\ r1.resizes = 1 /\ r1.code = 200
        /\ r2.pc = "done" /\ r2.hit /\ r2.bytes = r1.bytes

\* the source icon of the request is in place and has not been touched at all
SourceUntouched(r) ==
    /\ sourceChanges = 0
    /\ files[SourcePath(heap[r.app].initializedPath, r.kind)] # Absent

\* C13: of two requests for one (id, kind) of a loaded plugin that are served
\* concurrently (the second entered while the first was in flight), with the
\* first finding no cache file and the source icon in place throughout, the two
\* together invoke the resize operation exactly once and return the same bytes.
C13_ConcurrentFirstRequestsResizeOnce ==
    \A r1, r2 \in Requests :
        /\ r1.applicationId = r2.applicationId /\ r1.kind = r2.kind
        /\ r1.app # NoApp /\ r2.app # NoApp
        /\ r1.arrival = 0 /\ r2.arrival = 1 /\ r2.overlap = 1
        /\ ~r1.hit /\ r1.pc = "done" /\ r2.pc = "done"
        /\ SourceUntouched(r1)
        => /\ r1.resizes + r2.resizes = 1
           /\ r1.bytes = r2.bytes

\* C14: an icon request that invoked the resize operation ends with status
\* 200 and an image: the generated cache file or, when the resize failed, the
\* fallback image; it never ends in an error status.
C14_ResizeFailureServesFallback ==
    \A r \in Requests :
        (r.pc = "done" /\ r.resizes >= 1) =>
          /\ r.code = 200
          /\ r.sent \in {CachePath(r.applicationId, r.kind), InvalidIconPath}
          /\ r.bytes # Absent

\* the ids of the entries of a listing reply, in order
EntryIds(body) == [k \in 1..Len(body) |-> body[k].id]

\* C15: the quick-shortcut listing of a user with a pin list has status 200 and
\* its entries are, in order, exactly the pinned identifiers that match an
\* instance of the live set; the others leave no entry.
C15_ShortcutsArePinnedResolved ==
    (panelReply.route = "quick-shortcuts" /\ pinned # NoRow) =>
      /\ panelReply.code = 200
      /\ EntryIds(panelReply.body) = SelectSeq(pinned, Resolves)

\* C15 witness: a listing was served for a pin list whose first identifier
\* does not resolve and whose second does
C15_Witness ==
    /\ panelReply.route = "quick-shortcuts"
    /\ pinned # NoRow /\ Len(pinned) = 2
    /\ ~Resolves(pinned[1]) /\ Resolves(pinned[2])
    /\ EntryIds(panelReply.body) = <<pinned[2]>>

\* C16: when discovery fails, startup never gets past it: nothing is
\* constructed or loaded, no load is attempted, the server never listens and
\* the status never becomes OK.
C16_DiscoveryFailureIsFatal ==
    installedCfg = DiscoveryError =>
      /\ pc \in {"discover", "failed"}
      /\ heap = <<>> /\ loadedApplications = <<>> /\ loadLog = <<>>
      /\ ~listening
      /\ status # "OK"

\* C16 witness: discovery has failed and startup has been given up
C16_Witness ==
    /\ installedCfg = DiscoveryError
    /\ pc = "failed"
    /\ status = "NON_FUNCTIONAL"

\* C17: whatever the outcome of the verification step, the load goes on to
\* the import of the entry module: the step never ends the call.
C17_VerificationNonFatal ==
    [][pc = "verify" => pc' \in {"verify", "import"}]_vars

\* C18: the reply of the plugin listing has one entry per instance of the live
\* set, in load order, and no entry made from an instance whose load returned
\* null.
C18_ListingIsLiveSet ==
    panelReply.route = "applications" =>
      /\ panelReply.code = 200
      /\ Len(panelReply.body) = Len(loadedApplications)
      /\ \A k \in 1..Len(loadedApplications) :
           /\ panelReply.apps[k] = loadedApplications[k]
           /\ panelReply.body[k].id = heap[loadedApplications[k]].id
      /\ \A j \in 1..Len(loadLog) :
           loadLog[j].result = "null" =>
             \A k \in 1..Len(panelReply.apps) : panelReply.apps[k] # loadLog[j].app

\* C19: a default hook returns the instance it was called on, and the call
\* changes no instance (descriptor id, resolvedPath) and not the live set.
C19_DefaultHooksReturnSelf ==
    /\ [](hookReturn.returned = hookReturn.self)
    /\ [][hookReturn' # hookReturn =>
            /\ hookReturn'.returned = hookReturn'.self
            /\ loadedApplications' = loadedApplications
            /\ Len(heap') = Len(heap)
            /\ \A o \in 1..Len(heap) :
                 /\ heap'[o].id = heap[o].id
                 /\ heap'[o].initializedPath = heap[o].initializedPath]_vars

\* C19 witness: onAfterInstall was called on a loaded instance
C19_Witness ==
    /\ hookReturn.hook = "onAfterInstall"
    /\ hookReturn.self \in Live
    /\ heap[hookReturn.self].initializedPath # NOT_YET_LOADED

\* the requests for the same (id, kind) that came before `r`
Priors(r) == {q \in OnPair(r.applicationId, r.kind) : q.arrival < r.arrival}

\* `r` came after requests that were all answered with the fallback because
\* the source icon was missing, and overlaps no other request for its (id, kind)
AfterFallback(r) ==
    /\ r.app # NoApp
    /\ Priors(r) # {}
    /\ \A q \in Priors(r) : q.checkedSource /\ q.sent = InvalidIconPath
    /\ \A q \in OnPair(r.applicationId, r.kind) : q.arrival >= r.arrival => q.overlap = 0

\* C20: a request that follows fallback answers is never a cache hit: its
\* cache test fails and it goes on to create the directory; when it then finds
\* the source icon installed it invokes the resize operation; and when the
\* resize completes it streams the generated rendition, not the fallback.
C20_FallbackNotCached ==
    /\ [](\A r \in Requests : AfterFallback(r) => ~r.hit)
    /\ [][\A r \in Requests \ BagToSet(reqs') :
            AfterFallback(r) =>
              \A next \in BagToSet(reqs') \ Requests :
                 /\ r.pc = "exists" => next.pc = "mkdir"
                 /\ (r.pc = "source"
                       /\ files[SourcePath(heap[r.app].initializedPath, r.kind)] # Absent)
                      => (next.pc = "resize" /\ next.resizes = 1
                          /\ Len(resizeLog') = Len(resizeLog) + 1)
                 /\ r.pc = "write" =>
                      /\ next.pc = "done" /\ next.code = 200
                      /\ next.sent = CachePath(r.applicationId, r.kind)
                      /\ next.bytes = Expected(r.read)
                      /\ files'[CachePath(r.applicationId, r.kind)] = Expected(r.read)]_vars

\* C20 witness: a large-grid request served the generated rendition after an
\* earlier one had been answered with the fallback
C20_Witness ==
    \E r \in Requests :
        /\ AfterFallback(r)
        /\ r.kind = "largeGrid" /\ r.pc = "done" /\ r.code = 200
        /\ r.sent = CachePath(r.applicationId, "largeGrid")

\* C21: a reply that streams a cache file carries a completely generated
\* rendition, never a file that is still being written.
C21_NoPartialCacheFileStreamed ==
    \A r \in Requests :
        (r.code = 200 /\ r.sent = CachePath(r.applicationId, r.kind)) =>
          /\ r.bytes # Partial
          /\ \E content \in SourceContents : r.bytes = Expected(content)

\* the requests that take a step, and what they become
Stepping == Requests \ BagToSet(reqs')
Stepped == BagToSet(reqs') \ Requests

\* C22: a step of a request for one (id, kind) leaves every other request as
\* it is, changes no cache file but the one of its own pair, creates no cache
\* directory but its own application's, calls the resize operation only with
\* its own source icon and cache path, and replies only with its own cache
\* file or the fallback image.
C22_PairsAreIndependent ==
    [][\A r \in Stepping :
         LET own == CachePath(r.applicationId, r.kind)
         IN  /\ Requests \ {r} \subseteq BagToSet(reqs')
             /\ \A f \in CacheFiles \ {own} : files'[f] = files[f]
             /\ \A f \in SourceFiles \cup {InvalidIconPath} : files'[f] = files[f]
             /\ cacheDirs' \subseteq cacheDirs \cup {r.applicationId}
             /\ resizeLog' # resizeLog =>
                  /\ resizeLog' = Append(resizeLog, resizeLog'[Len(resizeLog')])
                  /\ resizeLog'[Len(resizeLog')].dest = own
                  /\ resizeLog'[Len(resizeLog')].src
                       = heap[r.app].initializedPath \o <<SourceFileName(r.kind)>>
             /\ \A next \in Stepped :
                  /\ next.applicationId = r.applicationId /\ next.kind = r.kind
                  /\ next.sent \in {None, own, InvalidIconPath}
                  /\ next.sent = own => next.bytes \in {files[own], files'[own]}
                  /\ next.sent = InvalidIconPath => next.bytes = files[InvalidIconPath]]_vars

\* C22 witness: two requests for different rendition kinds of one application
\* are both inside their resize, each writing its own cache file
C22_Witness ==
    \E r1, r2 \in Requests :
        /\ r1.applicationId = r2.applicationId /\ r1.kind # r2.kind
        /\ r1.pc = "write" /\ r2.pc = "write"
        /\ files[CachePath(r1.applicationId, r1.kind)] = Partial
        /\ files[CachePath(r2.applicationId, r2.kind)] = Partial

\* C23: a step of an icon request, whatever it leads to, leaves the live set
\* and every instance as they are.
C23_RequestsLeaveLiveSet ==
    [][reqs' # reqs =>
         /\ loadedApplications' = loadedApplications
         /\ heap' = heap]_vars

\* C23 witness: requests have ended as not found, as a failure to create the
\* cache directory or to resize, and the application is still in the live set
C23_Witness ==
    /\ Len(loadedApplications) = 1
    /\ \E r1, r2 \in Requests :
         /\ r1.code = 404
         /\ r2.code = 500
         /\ Find(r2.applicationId) = r2.app

\* C24: the server listens only once the load loop has attempted every
\* discovered identifier, and from then on no step changes the live set.
C24_LiveSetFixedOnceListening ==
    /\ [](listening => (idx = Len(installed) + 1 /\ Len(loadLog) = Len(installed)))
    /\ [][listening => (listening' /\ loadedApplications' = loadedApplications)]_vars
    /\ [][loadedApplications' # loadedApplications => (pc = "push" /\ ~listening)]_vars

\* C24 witness: the server listens after two loads were attempted, one of
\* which failed, and an uninstall was requested since
C24_Witness ==
    /\ listening
    /\ Len(installed) = 2 /\ Len(loadLog) = 2 /\ Len(loadedApplications) = 1
    /\ Len(uninstallLog) = 1

\* C30: the status is UNKNOWN until startup ends; it is OK only when the
\* server listens; a startup that threw leaves it NON_FUNCTIONAL, and from
\* NON_FUNCTIONAL it never changes again.
C30_StatusFollowsStartup ==
    /\ []((pc \notin {"done", "failed"}) => status = "UNKNOWN")
    /\ [](status = "OK" => listening)
    /\ [](pc = "failed" => status = "NON_FUNCTIONAL")
    /\ [][status = "NON_FUNCTIONAL" => status' = "NON_FUNCTIONAL"]_vars

\* C30 witness: startup returned true and the self-ping succeeded as well
C30_Witness ==
    /\ status = "OK" /\ pc = "done" /\ selfPing = "ok"

----------------------------------------------------------------------------
\* Properties of filesystem startup.

\* what one boot has logged, in order
BootLog(boot) == SelectSeq(fsLog, LAMBDA e : e.boot = boot)

FailedIn(boot, step) ==
    \E k \in 1..Len(fsLog) :
      fsLog[k].boot = boot /\ fsLog[k].step = step /\ fsLog[k].outcome = "failed"

FallbackStep == Len(FsSteps)

LastLogged == fsLog'[Len(fsLog')]

DefaultAssetPaths ==
    {defaultsDirectory \o <<"userAvatar.png">>, systemDirectory \o <<"loginBackground.avif">>,
     systemDirectory \o <<"instanceLogo.png">>}

\* the order of provisioning: root, cache, teams, users, defaults, system, the
\* default assets, the panel cache directory, the fallback icon
ProvisioningOrder ==
    << {rootDirectory}, {GlobalCacheDirectory}, {teamsDirectory}, {usersDirectory},
       {defaultsDirectory}, {systemDirectory}, DefaultAssetPaths, DefaultAssetPaths,
       DefaultAssetPaths, {PanelApplicationsDirectory}, {InvalidIconPath} >>

\* C26: filesystem startup never throws: it leaves its stage only after its last
\* step, a boot logs one line per step in the fixed order, and a step whose mkdir
\* or cp fails logs the failure, leaves its path missing and is followed by the
\* next step.
C26_FilesystemStartupCompletes ==
    /\ [](LET log == BootLog(boots)
          IN  /\ Len(log) = fsStep - 1
              /\ Len(log) <= Len(ProvisioningOrder)
              /\ \A k \in 1..Len(log) : log[k].step = k /\ log[k].path \in ProvisioningOrder[k])
    /\ [](pc # "filesystem" => fsStep = Len(FsSteps) + 1)
    /\ [][fsLog' # fsLog =>
            /\ fsStep' = fsStep + 1
            /\ (LastLogged.outcome = "failed") <=> (disk'[LastLogged.path] = Absent)
            /\ (LastLogged.outcome = "failed") => disk' = disk]_vars

C26_Witness ==
    /\ pc = "done"
    /\ boots = 1
    /\ FailedIn(1, 2)
    /\ \E k \in 1..Len(fsLog) : fsLog[k].step = FallbackStep - 1 /\ fsLog[k].outcome = "created"
    /\ disk[GlobalCacheDirectory] = Directory

----------------------------------------------------------------------------
\* Properties of the quick-shortcut routes.

IsPrefix(s, t) == Len(s) <= Len(t) /\ \A k \in 1..Len(s) : s[k] = t[k]

\* C27: a pin-create request that no other pin-create request overlaps appends
\* its identifier at the end of the list and returns success true only if the
\* identifier resolves to a loaded instance and is not pinned; if it is pinned
\* already the list is unchanged and success is false; if it does not resolve
\* the list is unchanged. The list keeps its entries, their order, and stays
\* without duplicates.
C27_SequentialPinCreate ==
    \A r \in pinReqs :
      (r.pc = "done" /\ r.alone) =>
        /\ r.reply = "true" =>
             /\ Find(r.applicationId) # NoApp
             /\ ~Includes(r.before, r.applicationId)
             /\ r.after = Append(r.before, r.applicationId)
        /\ r.reply # "true" => r.after = r.before
        /\ (Find(r.applicationId) # NoApp /\ Includes(r.before, r.applicationId)) =>
             r.reply = "false"
        /\ Find(r.applicationId) = NoApp => r.after = r.before
        /\ NoDuplicates(r.before) => NoDuplicates(r.after)
        /\ IsPrefix(r.before, r.after)

C27_Witness ==
    \E r1, r2 \in pinReqs :
      /\ r1.n = 1 /\ r2.n = 2
      /\ r1.alone /\ r2.alone
      /\ r1.applicationId = r2.applicationId
      /\ Len(r1.before) = 1
      /\ r1.reply = "true"
      /\ r2.reply = "false"
      /\ r2.before = r1.after

\* C28: once every pin-create request has completed, the list contains every
\* identifier for which success true was returned, and each identifier at most once.
C28_ConcurrentPinsAllKept ==
    (\A r \in pinReqs : r.pc = "done") =>
      /\ \A r \in pinReqs : r.reply = "true" => Includes(pinned, r.applicationId)
      /\ NoDuplicates(pinned)

====
